---- MODULE Spec2Model ----
(***************************************************************************)
(* Flow-control capacity ledger of one peer connection                     *)
(* (src/overlay/FlowControlCapacity.cpp).                                  *)
(*                                                                         *)
(* One ledger is modelled: either a FlowControlMessageCapacity (every      *)
(* message costs one unit, flood and total reading capacity both bounded)  *)
(* or a FlowControlByteCapacity (a message costs its serialized size, only *)
(* flood capacity bounded).  The connection object that owns the ledger is *)
(* the environment: it may call any public operation with any message at   *)
(* any time.  A failed releaseAssert ends the process: the state at the    *)
(* moment of the abort is kept and no operation runs afterwards.           *)
(***************************************************************************)
EXTENDS Integers, Sequences, FiniteSets

(* ----------------------------- bounds ---------------------------------- *)

\* uint64_t arithmetic is modelled modulo Word (a scaled-down 2^64).
Word == 65536
\* Messages locked and not yet released, at most.
MaxInFlight == 6
\* Cap on the sum of the SEND_MORE / SEND_MORE_EXTENDED grants of a run.
MaxGrantedMessages == 3
MaxGrantedBytes == 2000
\* Cap on the total growth of the flood byte ceiling.
MaxTxSizeGrowth == 200
\* Releases of a message that is not in flight (a caller breaking the
\* one-lock-one-release contract), at most.
MaxUnpaired == 1

(* ------------------------- program constants --------------------------- *)

\* xdr::xdr_size(msg.type()): an XDR enum is four bytes on the wire.
XdrTypeSize == 4
\* Peer::FIRST_VERSION_UPDATED_FLOW_CONTROL_ACCOUNTING
FIRST_VERSION_UPDATED_FLOW_CONTROL_ACCOUNTING == 30

(* ------------------------------ messages ------------------------------- *)

\* A StellarMessage, reduced to what the ledger reads of it: its type, its
\* serialized size (xdr::xdr_size(msg)) and the amounts of a credit grant.
Message(t, size, nm, nb) ==
    [type |-> t, xdrSize |-> size, numMessages |-> nm, numBytes |-> nb]

NoMsg == Message("NONE", 0, 0, 0)
TxMsg == Message("TRANSACTION", 904, 0, 0)
GetMsg == Message("GET_SCP_STATE", 8, 0, 0)
SendMore == Message("SEND_MORE", 8, 1, 0)
SendMoreExt == Message("SEND_MORE_EXTENDED", 12, 2, 1000)

\* Messages a peer sends as payload and this side sends to the peer.
PayloadMessages == {TxMsg, GetMsg}
\* Everything that can arrive where a credit grant is expected.
Messages == PayloadMessages \cup {SendMore, SendMoreExt}

\* OverlayManager::isFloodMessage
isFloodMessage(msg) ==
    msg.type \in {"TRANSACTION", "SCP_MESSAGE", "FLOOD_ADVERT", "FLOOD_DEMAND"}

\* xdr::xdr_size(msg)
xdr_size(msg) == msg.xdrSize

\* FlowControl::getNumMessages
getNumMessages(msg) == msg.numMessages

(* --------------------------- configuration ----------------------------- *)

Cfg(flood, total, bytes, version) ==
    [PEER_FLOOD_READING_CAPACITY |-> flood, PEER_READING_CAPACITY |-> total,
     flowControlBytesTotal |-> bytes, OVERLAY_PROTOCOL_VERSION |-> version]

\* The ledgers the model constructs: strategy, configuration, and the remote
\* overlay version handed to the byte ledger's constructor.
Ledgers ==
    {[strategy |-> "message", config |-> Cfg(f, 2 * f, 0, 30), remoteVersion |-> 0] :
        f \in {1, 5}}
    \cup
    {[strategy |-> "byte", config |-> Cfg(0, 0, 1808, lv), remoteVersion |-> rv] :
        lv \in {29, 30}, rv \in {0, 29, 30}}
    \cup
    {[strategy |-> "byte", config |-> Cfg(0, 0, 1808, 31), remoteVersion |-> 31]}

TxSizeIncreases == {100, 200}

(* --------------------------- unsigned words ---------------------------- *)

Add64(a, b) == (a + b) % Word
Sub64(a, b) == (a - b + Word) % Word

\* std::optional<uint64_t>: the empty sequence is std::nullopt.
Nullopt == << >>
Some(v) == << v >>
HasValue(o) == Len(o) > 0
Value(o) == o[1]

ReadingCapacity(flood, total) ==
    [mFloodCapacity |-> flood, mTotalCapacity |-> total]

(* ------------------------------- state --------------------------------- *)

VARIABLES
    strategy,              \* "message" | "byte": the class of the ledger
    config,                \* mApp.getConfig() and getFlowControlBytesConfig()
    mRemoteOverlayVersion, \* FlowControlByteCapacity only
    mCapacity,             \* ReadingCapacity: the live snapshot
    mCapacityLimits,       \* FlowControlByteCapacity only
    mOutboundCapacity,
    aborted,               \* a releaseAssert failed
    inflight,              \* history: admitted and not yet released, per message
    unpaired,              \* history: releases of a message that was not in flight
    grantedSum,            \* history: sum of the amounts granted by the peer
    sentSum,               \* history: sum of the costs lockOutboundCapacity deducted
    last                   \* history: the last call, its result, the state before it

vars == <<strategy, config, mRemoteOverlayVersion, mCapacity, mCapacityLimits,
          mOutboundCapacity, aborted, inflight, unpaired, grantedSum,
          sentSum, last>>

ledgerConst == <<strategy, config, mRemoteOverlayVersion>>

InFlightCount == inflight[TxMsg] + inflight[GetMsg]

Snapshot ==
    [mCapacity |-> mCapacity, mCapacityLimits |-> mCapacityLimits,
     mOutboundCapacity |-> mOutboundCapacity]

Call(op, msg, arg, retBool, retUnits, roundTrip) ==
    [op |-> op, msg |-> msg, arg |-> arg, retBool |-> retBool,
     retUnits |-> retUnits, pre |-> Snapshot, lockedFrom |-> roundTrip]

(* ------------------------- strategy operations ------------------------- *)

\* FlowControlMessageCapacity::getCapacityLimits and
\* FlowControlByteCapacity::getCapacityLimits
getCapacityLimits ==
    IF strategy = "message"
    THEN ReadingCapacity(config.PEER_FLOOD_READING_CAPACITY,
                         Some(config.PEER_READING_CAPACITY))
    ELSE mCapacityLimits

\* Mutant: "||" for "&&" between the two version tests.
msgBodySize_EitherVersion(msg, remoteVersion, localVersion) ==
    IF \/ remoteVersion >= FIRST_VERSION_UPDATED_FLOW_CONTROL_ACCOUNTING
       \/ localVersion >= FIRST_VERSION_UPDATED_FLOW_CONTROL_ACCOUNTING
    THEN xdr_size(msg) - XdrTypeSize
    ELSE xdr_size(msg)

\* FlowControlCapacity::msgBodySize
msgBodySize(msg, remoteVersion, localVersion) ==
    IF /\ remoteVersion >= FIRST_VERSION_UPDATED_FLOW_CONTROL_ACCOUNTING
       /\ localVersion >= FIRST_VERSION_UPDATED_FLOW_CONTROL_ACCOUNTING
    THEN xdr_size(msg) - XdrTypeSize
    ELSE xdr_size(msg)

\* releaseAssert(mRemoteOverlayVersion) of the byte ledger's getMsgResourceCount:
\* TRUE when computing a cost aborts.
getMsgResourceCountAborts ==
    strategy = "byte" /\ mRemoteOverlayVersion = 0

\* FlowControlMessageCapacity::getMsgResourceCount and
\* FlowControlByteCapacity::getMsgResourceCount
getMsgResourceCount(msg) ==
    IF strategy = "message"
    THEN 1
    ELSE msgBodySize(msg, mRemoteOverlayVersion, config.OVERLAY_PROTOCOL_VERSION)

\* FlowControlCapacity::checkCapacityInvariants: TRUE when every assertion passes.
checkCapacityInvariants(cap, limits) ==
    /\ limits.mFloodCapacity >= cap.mFloodCapacity
    /\ IF HasValue(limits.mTotalCapacity)
       THEN /\ HasValue(cap.mTotalCapacity)
            /\ Value(limits.mTotalCapacity) >= Value(cap.mTotalCapacity)
       ELSE ~HasValue(cap.mTotalCapacity)

\* Mutant: the outbound assertion never fails.
hasOutboundCapacity_Always(msg) ==
    TRUE

\* FlowControlCapacity::hasOutboundCapacity (its value, when the cost is computed)
hasOutboundCapacity(msg) ==
    mOutboundCapacity >= getMsgResourceCount(msg)

\* Mutant: ">= 0" for "> 0" in the message ledger's canRead.
canReadValue_NonNegative ==
    IF strategy = "message"
    THEN Value(mCapacity.mTotalCapacity) >= 0
    ELSE TRUE

\* FlowControlMessageCapacity::canRead and FlowControlByteCapacity::canRead:
\* the assertion, and the value returned when it passes.
canReadAsserts ==
    IF strategy = "message"
    THEN HasValue(mCapacity.mTotalCapacity)
    ELSE ~HasValue(mCapacity.mTotalCapacity)

canReadValue ==
    IF strategy = "message"
    THEN Value(mCapacity.mTotalCapacity) > 0
    ELSE TRUE

(* ------------------- steps of lock / release (pure) -------------------- *)

\* A variant of TotalSuffices that demands strictly more than the cost.
TotalSuffices_Strict(cap, n) ==
    HasValue(cap.mTotalCapacity) => Value(cap.mTotalCapacity) > n

\* lockLocalCapacity, "if (mCapacity.mTotalCapacity)": the assertion
TotalSuffices(cap, n) ==
    HasValue(cap.mTotalCapacity) => Value(cap.mTotalCapacity) >= n

\* lockLocalCapacity: *mCapacity.mTotalCapacity -= msgResources
LockTotal(cap, n) ==
    IF HasValue(cap.mTotalCapacity)
    THEN [cap EXCEPT !.mTotalCapacity = Some(Sub64(Value(@), n))]
    ELSE cap

\* Mutant: the flood check is missing, a flood message is always admitted.
NoFloodCapacity_Never(cap, n) ==
    FALSE

\* Mutant: "<=" for "<" in the flood check.
NoFloodCapacity_OffByOne(cap, n) ==
    cap.mFloodCapacity <= n

\* lockLocalCapacity: "No capacity to process flood message"
NoFloodCapacity(cap, n) ==
    cap.mFloodCapacity < n

\* lockLocalCapacity: mCapacity.mFloodCapacity -= msgResources
LockFlood(cap, n) ==
    [cap EXCEPT !.mFloodCapacity = Sub64(@, n)]

\* Mutant: an absent total capacity is read as 0 (value_or(0)) and set.
ReleaseTotal_ValueOr(cap, n) ==
    [cap EXCEPT !.mTotalCapacity =
         Some(Add64(IF HasValue(@) THEN Value(@) ELSE 0, n))]

\* Mutant: total capacity is not given back.
ReleaseTotal_Forgotten(cap, n) ==
    cap

\* releaseLocalCapacity: *mCapacity.mTotalCapacity += resourcesFreed
ReleaseTotal(cap, n) ==
    IF HasValue(cap.mTotalCapacity)
    THEN [cap EXCEPT !.mTotalCapacity = Some(Add64(Value(@), n))]
    ELSE cap

\* releaseLocalCapacity: mCapacity.mFloodCapacity += resourcesFreed
ReleaseFlood(cap, n) ==
    [cap EXCEPT !.mFloodCapacity = Add64(@, n)]

\* Mutant: the freed amount is reported for non-flood messages too.
ReleasedFloodCapacity_Always(msg, n) ==
    n

\* releaseLocalCapacity: releasedFloodCapacity
ReleasedFloodCapacity(msg, n) ==
    IF isFloodMessage(msg) THEN n ELSE 0

(* ------------------------------ actions -------------------------------- *)

\* The constructors: mCapacity = getCapacityLimits(), mOutboundCapacity{0}.
Init ==
    \E l \in Ledgers :
        /\ strategy = l.strategy
        /\ config = l.config
        /\ mRemoteOverlayVersion = l.remoteVersion
        /\ mCapacityLimits =
               IF l.strategy = "byte"
               THEN ReadingCapacity(l.config.flowControlBytesTotal, Nullopt)
               ELSE ReadingCapacity(0, Nullopt)
        /\ mCapacity =
               IF l.strategy = "byte"
               THEN ReadingCapacity(l.config.flowControlBytesTotal, Nullopt)
               ELSE ReadingCapacity(l.config.PEER_FLOOD_READING_CAPACITY,
                                    Some(l.config.PEER_READING_CAPACITY))
        /\ mOutboundCapacity = 0
        /\ aborted = FALSE
        /\ inflight = [m \in PayloadMessages |-> 0]
        /\ unpaired = 0
        /\ grantedSum = 0
        /\ sentSum = 0
        /\ last = [op |-> "construct", msg |-> NoMsg, arg |-> 0,
                   retBool |-> FALSE, retUnits |-> 0,
                   pre |-> [mCapacity |-> ReadingCapacity(0, Nullopt),
                            mCapacityLimits |-> ReadingCapacity(0, Nullopt),
                            mOutboundCapacity |-> 0],
                   lockedFrom |-> << >>]

\* A failed releaseAssert: the process ends with the state as it is.
Fatal(op, msg, arg) ==
    /\ aborted' = TRUE
    /\ last' = Call(op, msg, arg, FALSE, 0, << >>)

\* FlowControlCapacity::lockLocalCapacity
lockLocalCapacity(msg) ==
    /\ ~aborted
    /\ InFlightCount < MaxInFlight
    /\ LET n == getMsgResourceCount(msg)
           afterTotal == LockTotal(mCapacity, n)
       IN  IF \/ ~checkCapacityInvariants(mCapacity, getCapacityLimits)
              \/ getMsgResourceCountAborts
              \/ ~TotalSuffices(mCapacity, n)
           THEN /\ Fatal("lockLocalCapacity", msg, 0)
                /\ UNCHANGED <<mCapacity, inflight>>
           ELSE IF isFloodMessage(msg) /\ NoFloodCapacity(afterTotal, n)
           THEN /\ mCapacity' = afterTotal
                /\ last' = Call("lockLocalCapacity", msg, 0, FALSE, 0, << >>)
                /\ UNCHANGED <<aborted, inflight>>
           ELSE /\ mCapacity' = IF isFloodMessage(msg)
                                THEN LockFlood(afterTotal, n)
                                ELSE afterTotal
                /\ last' = Call("lockLocalCapacity", msg, 0, TRUE, 0, << >>)
                /\ inflight' = [inflight EXCEPT ![msg] = @ + 1]
                /\ UNCHANGED aborted
    /\ UNCHANGED <<ledgerConst, mCapacityLimits, mOutboundCapacity, unpaired,
                   grantedSum, sentSum>>

\* FlowControlCapacity::releaseLocalCapacity
releaseLocalCapacity(msg) ==
    /\ ~aborted
    /\ LET n == getMsgResourceCount(msg)
           afterTotal == ReleaseTotal(mCapacity, n)
           after == IF isFloodMessage(msg)
                    THEN ReleaseFlood(afterTotal, n)
                    ELSE afterTotal
           from == IF last.op = "lockLocalCapacity" /\ last.msg = msg
                   THEN << [mCapacity |-> last.pre.mCapacity,
                            admitted |-> last.retBool] >>
                   ELSE << >>
       IN  IF getMsgResourceCountAborts
           THEN /\ Fatal("releaseLocalCapacity", msg, 0)
                /\ UNCHANGED mCapacity
           ELSE IF ~checkCapacityInvariants(after, getCapacityLimits)
           THEN /\ aborted' = TRUE
                /\ last' = Call("releaseLocalCapacity", msg, 0, FALSE, 0, from)
                /\ mCapacity' = after
           ELSE /\ mCapacity' = after
                /\ last' = Call("releaseLocalCapacity", msg, 0, FALSE,
                                ReleasedFloodCapacity(msg, n), from)
                /\ UNCHANGED aborted
    /\ IF inflight[msg] > 0
       THEN /\ inflight' = [inflight EXCEPT ![msg] = @ - 1]
            /\ UNCHANGED unpaired
       ELSE /\ unpaired < MaxUnpaired
            /\ unpaired' = unpaired + 1
            /\ UNCHANGED inflight
    /\ UNCHANGED <<ledgerConst, mCapacityLimits, mOutboundCapacity, grantedSum,
                   sentSum>>

\* The amount a credit grant carries for this ledger: numMessages for the
\* message ledger (FlowControl::getNumMessages), numBytes for the byte ledger.
GrantAmount(msg) ==
    IF strategy = "message" THEN getNumMessages(msg) ELSE msg.numBytes

\* Mutant: the byte ledger asserts what the message ledger asserts.
IsExpectedGrant_Either(msg) ==
    msg.type = "SEND_MORE" \/ msg.type = "SEND_MORE_EXTENDED"

\* The releaseAssert on msg.type() of the two releaseOutboundCapacity.
IsExpectedGrant(msg) ==
    IF strategy = "message"
    THEN msg.type = "SEND_MORE" \/ msg.type = "SEND_MORE_EXTENDED"
    ELSE msg.type = "SEND_MORE_EXTENDED"

MaxGranted ==
    IF strategy = "message" THEN MaxGrantedMessages ELSE MaxGrantedBytes

\* Mutant: "+=" for "-=" in lockOutboundCapacity.
OutboundAfterLock_Adds(msg) ==
    Add64(mOutboundCapacity, getMsgResourceCount(msg))

\* lockOutboundCapacity: mOutboundCapacity -= getMsgResourceCount(msg)
OutboundAfterLock(msg) ==
    Sub64(mOutboundCapacity, getMsgResourceCount(msg))

\* Mutant: "=" for "+=" in releaseOutboundCapacity.
OutboundAfterGrant_Overwrites(msg) ==
    GrantAmount(msg)

\* releaseOutboundCapacity: mOutboundCapacity += numMessages (or numBytes)
OutboundAfterGrant(msg) ==
    Add64(mOutboundCapacity, GrantAmount(msg))

\* FlowControlMessageCapacity::releaseOutboundCapacity and
\* FlowControlByteCapacity::releaseOutboundCapacity, in a run whose grants sum
\* to at most maxGranted.
releaseOutboundCapacityWithin(msg, maxGranted) ==
    /\ ~aborted
    /\ IF ~IsExpectedGrant(msg) \/ getMsgResourceCountAborts
       THEN /\ Fatal("releaseOutboundCapacity", msg, 0)
            /\ UNCHANGED <<mOutboundCapacity, grantedSum>>
       ELSE /\ grantedSum + GrantAmount(msg) <= maxGranted
            /\ mOutboundCapacity' = OutboundAfterGrant(msg)
            /\ grantedSum' = grantedSum + GrantAmount(msg)
            /\ last' = Call("releaseOutboundCapacity", msg, GrantAmount(msg),
                            FALSE, 0, << >>)
            /\ UNCHANGED aborted
    /\ UNCHANGED <<ledgerConst, mCapacity, mCapacityLimits, inflight,
                   unpaired, sentSum>>

releaseOutboundCapacity(msg) ==
    releaseOutboundCapacityWithin(msg, MaxGranted)

\* FlowControlCapacity::lockOutboundCapacity
lockOutboundCapacity(msg) ==
    /\ ~aborted
    /\ IF ~isFloodMessage(msg)
       THEN /\ last' = Call("lockOutboundCapacity", msg, 0, FALSE, 0, << >>)
            /\ UNCHANGED <<mOutboundCapacity, sentSum, aborted>>
       ELSE IF getMsgResourceCountAborts \/ ~hasOutboundCapacity(msg)
       THEN /\ Fatal("lockOutboundCapacity", msg, 0)
            /\ UNCHANGED <<mOutboundCapacity, sentSum>>
       ELSE /\ mOutboundCapacity' = OutboundAfterLock(msg)
            /\ sentSum' = sentSum + getMsgResourceCount(msg)
            /\ last' = Call("lockOutboundCapacity", msg, 0, FALSE, 0, << >>)
            /\ UNCHANGED aborted
    /\ UNCHANGED <<ledgerConst, mCapacity, mCapacityLimits, inflight,
                   unpaired, grantedSum>>

\* A call of FlowControlCapacity::hasOutboundCapacity by the connection.
queryOutboundCapacity(msg) ==
    /\ ~aborted
    /\ IF getMsgResourceCountAborts
       THEN Fatal("hasOutboundCapacity", msg, 0)
       ELSE /\ last' = Call("hasOutboundCapacity", msg, 0,
                            hasOutboundCapacity(msg), 0, << >>)
            /\ UNCHANGED aborted
    /\ UNCHANGED <<ledgerConst, mCapacity, mCapacityLimits, mOutboundCapacity,
                   inflight, unpaired, grantedSum, sentSum>>

\* A call of canRead by the connection.
canRead ==
    /\ ~aborted
    /\ IF ~canReadAsserts
       THEN Fatal("canRead", NoMsg, 0)
       ELSE /\ last' = Call("canRead", NoMsg, 0, canReadValue, 0, << >>)
            /\ UNCHANGED aborted
    /\ UNCHANGED <<ledgerConst, mCapacity, mCapacityLimits, mOutboundCapacity,
                   inflight, unpaired, grantedSum, sentSum>>

\* Mutant: handleTxSizeIncrease raises the ceiling only.
RaisedCapacity_Forgotten(cap, increase) ==
    cap

\* FlowControlByteCapacity::handleTxSizeIncrease: the raised snapshot and ceiling.
RaisedCapacity(cap, increase) ==
    [cap EXCEPT !.mFloodCapacity = Add64(@, increase)]

\* Mutant: "=" for "+=" on the ceiling in handleTxSizeIncrease.
RaisedLimits_Assigned(limits, increase) ==
    [limits EXCEPT !.mFloodCapacity = increase]

\* Mutant: handleTxSizeIncrease forgets the ceiling.
RaisedLimits_Unchanged(limits, increase) ==
    limits

RaisedLimits(limits, increase) ==
    [limits EXCEPT !.mFloodCapacity = Add64(@, increase)]

\* FlowControlByteCapacity::handleTxSizeIncrease, in a run that raises the
\* ceiling to at most maxGrowth above its configured value.
handleTxSizeIncreaseWithin(increase, maxGrowth) ==
    /\ ~aborted
    /\ strategy = "byte"
    /\ mCapacityLimits.mFloodCapacity + increase
           <= config.flowControlBytesTotal + maxGrowth
    /\ mCapacity' = RaisedCapacity(mCapacity, increase)
    /\ mCapacityLimits' = RaisedLimits(mCapacityLimits, increase)
    /\ last' = Call("handleTxSizeIncrease", NoMsg, increase, FALSE, 0, << >>)
    /\ UNCHANGED <<ledgerConst, mOutboundCapacity, aborted, inflight,
                   unpaired, grantedSum, sentSum>>

handleTxSizeIncrease(increase) ==
    handleTxSizeIncreaseWithin(increase, MaxTxSizeGrowth)

LockLocal == \E m \in PayloadMessages : lockLocalCapacity(m)
ReleaseLocal == \E m \in PayloadMessages : releaseLocalCapacity(m)
ReleaseOutbound == \E m \in Messages : releaseOutboundCapacity(m)
LockOutbound == \E m \in PayloadMessages : lockOutboundCapacity(m)
HasOutbound == \E m \in PayloadMessages : queryOutboundCapacity(m)
CanRead == canRead
TxSizeIncrease == \E d \in TxSizeIncreases : handleTxSizeIncrease(d)

Next ==
    \/ LockLocal
    \/ ReleaseLocal
    \/ ReleaseOutbound
    \/ LockOutbound
    \/ HasOutbound
    \/ CanRead
    \/ TxSizeIncrease

Spec == Init /\ [][Next]_vars

(* ------------------ runs that reach the end of the word ---------------- *)

\* A credit grant and a transaction-size increase of a quarter of the word:
\* what many grants and increases of ordinary size add up to.
SendMoreExtBig == Message("SEND_MORE_EXTENDED", 12, 16384, 16384)
WideTxSizeIncreases == {16384}

\* The peer may grant, and the configuration may grow, past the word size.
WideLimit == 2 * Word

ReleaseOutboundWide == releaseOutboundCapacityWithin(SendMoreExtBig, WideLimit)
TxSizeIncreaseWide ==
    \E d \in WideTxSizeIncreases : handleTxSizeIncreaseWithin(d, WideLimit)

NextWrap ==
    \/ ReleaseOutboundWide
    \/ TxSizeIncreaseWide
    \/ HasOutbound
    \/ CanRead

SpecWrap == Init /\ [][NextWrap]_vars

(* ------------------------------ claims --------------------------------- *)

Returned(op) == ~aborted /\ last.op = op

\* C1: on a count-based ledger whose caller releases only messages that are in
\* flight (locked before, not yet released), every reachable state has
\* 0 <= flood_capacity <= flood_limit and 0 <= total_capacity <= total_limit.
C1_CountCapacityWithinLimits ==
    (strategy = "message" /\ unpaired = 0) =>
        /\ 0 <= mCapacity.mFloodCapacity
        /\ mCapacity.mFloodCapacity <= getCapacityLimits.mFloodCapacity
        /\ HasValue(mCapacity.mTotalCapacity)
        /\ 0 <= Value(mCapacity.mTotalCapacity)
        /\ Value(mCapacity.mTotalCapacity)
               <= Value(getCapacityLimits.mTotalCapacity)

\* C1 witness: a count-based ledger with its flood capacity used up, just after
\* the release of a non-flood message that was in flight.
C1_Witness ==
    /\ strategy = "message" /\ unpaired = 0
    /\ Returned("releaseLocalCapacity") /\ last.msg = GetMsg
    /\ mCapacity.mFloodCapacity = 0
    /\ inflight[TxMsg] = 5

\* C2: on a count-based ledger a lockLocalCapacity that refuses a flood message
\* (returns false) leaves flood_capacity and total_capacity as they were.
C2_RefusalCommitsNothing ==
    ( /\ strategy = "message"
      /\ Returned("lockLocalCapacity")
      /\ isFloodMessage(last.msg)
      /\ ~last.retBool )
    => mCapacity = last.pre.mCapacity

\* C3 (as stated): whenever releaseLocalCapacity(m) returns directly after a
\* lockLocalCapacity(m) that did not abort, flood and total capacity are what
\* they were before the lock.
C3_RoundTripAfterAnyLock ==
    (Returned("releaseLocalCapacity") /\ HasValue(last.lockedFrom))
    => mCapacity = last.lockedFrom[1].mCapacity

\* C3 (amended): whenever releaseLocalCapacity(m) runs directly after a
\* lockLocalCapacity(m) that returned true, it returns, and flood and total
\* capacity are what they were before the lock.
C3_RoundTripAfterAdmission ==
    ( /\ last.op = "releaseLocalCapacity"
      /\ HasValue(last.lockedFrom)
      /\ last.lockedFrom[1].admitted )
    => /\ ~aborted
       /\ mCapacity = last.lockedFrom[1].mCapacity

\* C3 witness: a flood message admitted when it took the last flood capacity of
\* a count-based ledger, then released at once.
C3_Witness ==
    /\ strategy = "message"
    /\ Returned("releaseLocalCapacity") /\ last.msg = TxMsg
    /\ HasValue(last.lockedFrom) /\ last.lockedFrom[1].admitted
    /\ last.pre.mCapacity.mFloodCapacity = 0
    /\ mCapacity.mFloodCapacity = 1

\* C4: lockLocalCapacity of a flood message returns false exactly when
\* flood_capacity < cost, and then leaves flood_capacity unchanged; otherwise it
\* lowers flood_capacity by exactly cost and returns true.  For a non-flood
\* message it returns true and leaves flood_capacity unchanged.
C4_LockLocalResult ==
    Returned("lockLocalCapacity") =>
        LET before == last.pre.mCapacity.mFloodCapacity
            cost == getMsgResourceCount(last.msg)
        IN  IF isFloodMessage(last.msg)
            THEN /\ last.retBool = ~(before < cost)
                 /\ mCapacity.mFloodCapacity =
                        IF before < cost THEN before ELSE before - cost
            ELSE /\ last.retBool
                 /\ mCapacity.mFloodCapacity = before

\* C4 witness: a byte ledger refuses a flood message that no longer fits its
\* remaining, non-zero flood capacity.
C4_Witness ==
    /\ strategy = "byte"
    /\ Returned("lockLocalCapacity") /\ last.msg = TxMsg
    /\ ~last.retBool
    /\ mCapacity.mFloodCapacity > 0
    /\ mCapacity.mFloodCapacity < getMsgResourceCount(TxMsg)

\* C5: releaseLocalCapacity(m) returns cost(m) and raises flood_capacity by
\* exactly cost(m) when m is a flood message, and returns 0 with flood_capacity
\* unchanged when it is not; total_capacity, when present, rises by exactly
\* cost(m) in both cases.
C5_ReleaseLocalResult ==
    Returned("releaseLocalCapacity") =>
        LET before == last.pre.mCapacity
            cost == getMsgResourceCount(last.msg)
            freed == IF isFloodMessage(last.msg) THEN cost ELSE 0
        IN  /\ last.retUnits = freed
            /\ mCapacity.mFloodCapacity = before.mFloodCapacity + freed
            /\ HasValue(mCapacity.mTotalCapacity) = HasValue(before.mTotalCapacity)
            /\ HasValue(before.mTotalCapacity) =>
                   Value(mCapacity.mTotalCapacity)
                       = Value(before.mTotalCapacity) + cost

\* C5 witness: a byte ledger at flood capacity 0 releases a flood message of
\* cost 904 (old accounting): 904 is returned and flood capacity is 904.
C5_Witness ==
    /\ strategy = "byte"
    /\ Returned("releaseLocalCapacity") /\ last.msg = TxMsg
    /\ last.pre.mCapacity.mFloodCapacity = 0
    /\ last.retUnits = 904
    /\ mCapacity.mFloodCapacity = 904

\* C6: the sum of the costs of the flood messages lockOutboundCapacity completed
\* for never exceeds the sum of the amounts the peer granted; a
\* lockOutboundCapacity of a flood message whose cost exceeds the outbound
\* counter is fatal and leaves the counter unchanged; a lockOutboundCapacity of
\* a non-flood message returns and leaves the counter unchanged.
C6_NeverSendsMoreThanGranted ==
    /\ sentSum <= grantedSum
    /\ last.op = "lockOutboundCapacity" =>
           IF isFloodMessage(last.msg)
           THEN getMsgResourceCount(last.msg) > last.pre.mOutboundCapacity
                    => /\ aborted
                       /\ mOutboundCapacity = last.pre.mOutboundCapacity
           ELSE /\ ~aborted
                /\ mOutboundCapacity = last.pre.mOutboundCapacity

\* C6 witness: after one flood message was sent on granted credit, locking a
\* second one that exceeds what is left of the grant is fatal.
C6_Witness ==
    /\ aborted /\ last.op = "lockOutboundCapacity"
    /\ sentSum > 0
    /\ mOutboundCapacity > 0
    /\ mOutboundCapacity < getMsgResourceCount(last.msg)

\* C7: the outbound counter is 0 in a fresh ledger; a step raises it only if it
\* is a releaseOutboundCapacity and lowers it only if it is a
\* lockOutboundCapacity of a flood message; every other step leaves it as it is.
C7_OutboundFrame ==
    /\ mOutboundCapacity = 0
    /\ [][ /\ mOutboundCapacity' > mOutboundCapacity
               => last'.op = "releaseOutboundCapacity"
           /\ mOutboundCapacity' < mOutboundCapacity
               => /\ last'.op = "lockOutboundCapacity"
                  /\ isFloodMessage(last'.msg)
           /\ last'.op \in {"lockLocalCapacity", "releaseLocalCapacity", "canRead",
                            "hasOutboundCapacity", "handleTxSizeIncrease"}
               => mOutboundCapacity' = mOutboundCapacity
         ]_vars

\* C7 witness: a byte ledger whose counter was raised and lowered and is left
\* non-zero by a handleTxSizeIncrease.
C7_Witness ==
    /\ Returned("handleTxSizeIncrease")
    /\ sentSum > 0
    /\ mOutboundCapacity > 0
    /\ mOutboundCapacity = last.pre.mOutboundCapacity

\* C8: releaseOutboundCapacity with a grant of n raises the counter from c to
\* exactly c + n (n messages on a count-based ledger, n bytes on a byte-based
\* one); hasOutboundCapacity(m) is true iff the counter >= cost(m); and
\* lockOutboundCapacity of a flood message of cost k <= counter lowers the
\* counter by exactly k.
C8_OutboundArithmetic ==
    /\ Returned("releaseOutboundCapacity") =>
           mOutboundCapacity = last.pre.mOutboundCapacity
               + (IF strategy = "message"
                  THEN last.msg.numMessages
                  ELSE last.msg.numBytes)
    /\ Returned("hasOutboundCapacity") =>
           last.retBool = (mOutboundCapacity >= getMsgResourceCount(last.msg))
    /\ (Returned("lockOutboundCapacity") /\ isFloodMessage(last.msg)) =>
           mOutboundCapacity
               = last.pre.mOutboundCapacity - getMsgResourceCount(last.msg)

\* C8 witness: a byte ledger granted 1000 bytes from 0 locks a flood message of
\* cost 900, which leaves 100.
C8_Witness ==
    /\ strategy = "byte"
    /\ Returned("lockOutboundCapacity") /\ last.msg = TxMsg
    /\ grantedSum = 1000
    /\ last.pre.mOutboundCapacity = 1000
    /\ getMsgResourceCount(TxMsg) = 900
    /\ mOutboundCapacity = 100

\* C9: canRead() of a byte-based ledger returns true; canRead() of a
\* count-based ledger returns true iff total_capacity > 0, whatever
\* flood_capacity and the outbound counter are.
C9_CanRead ==
    Returned("canRead") =>
        last.retBool = IF strategy = "byte"
                       THEN TRUE
                       ELSE /\ HasValue(mCapacity.mTotalCapacity)
                            /\ Value(mCapacity.mTotalCapacity) > 0

\* C9 witness: a count-based ledger with flood capacity and outbound credit
\* left, and total capacity 0, answers canRead() with false.
C9_Witness ==
    /\ strategy = "message"
    /\ Returned("canRead") /\ ~last.retBool
    /\ mCapacity.mFloodCapacity > 0
    /\ mOutboundCapacity > 0

\* C10: on a byte-based ledger handleTxSizeIncrease(d) raises flood_capacity and
\* the flood ceiling each by exactly d, leaves total_capacity absent and the
\* outbound counter unchanged, and leaves flood ceiling >= flood_capacity.
C10_TxSizeIncrease ==
    last.op = "handleTxSizeIncrease" =>
        /\ ~aborted
        /\ strategy = "byte"
        /\ mCapacity.mFloodCapacity
               = last.pre.mCapacity.mFloodCapacity + last.arg
        /\ getCapacityLimits.mFloodCapacity
               = last.pre.mCapacityLimits.mFloodCapacity + last.arg
        /\ ~HasValue(mCapacity.mTotalCapacity)
        /\ ~HasValue(getCapacityLimits.mTotalCapacity)
        /\ mOutboundCapacity = last.pre.mOutboundCapacity
        /\ getCapacityLimits.mFloodCapacity >= mCapacity.mFloodCapacity

\* C10 witness: the ceiling is raised by 200 while a flood message is in flight
\* and outbound credit is held.
C10_Witness ==
    /\ last.op = "handleTxSizeIncrease" /\ last.arg = 200
    /\ inflight[TxMsg] > 0
    /\ mCapacity.mFloodCapacity < getCapacityLimits.mFloodCapacity
    /\ mOutboundCapacity > 0

\* C11: on a byte-based ledger whose caller releases only in-flight messages,
\* with handleTxSizeIncrease steps anywhere between locks and releases, no
\* reachable state has flood_capacity above the flood ceiling or fails a
\* capacity-invariant assertion; and no step lowers the flood ceiling.
C11_TxSizeIncreaseInterleaves ==
    /\ [](  (strategy = "byte" /\ unpaired = 0) =>
                /\ mCapacity.mFloodCapacity <= getCapacityLimits.mFloodCapacity
                /\ ~HasValue(getCapacityLimits.mTotalCapacity)
                /\ ~HasValue(mCapacity.mTotalCapacity) )
    /\ [][ strategy = "byte" =>
               getCapacityLimits.mFloodCapacity' >= getCapacityLimits.mFloodCapacity
         ]_vars

\* C11 witness: the ceiling of a byte ledger is raised while two flood messages
\* are in flight, one of which is then released.
C11_Witness ==
    /\ strategy = "byte" /\ unpaired = 0
    /\ Returned("releaseLocalCapacity") /\ last.msg = TxMsg
    /\ inflight[TxMsg] = 1
    /\ last.pre.mCapacity.mFloodCapacity > 0
    /\ last.pre.mCapacity.mFloodCapacity < getMsgResourceCount(TxMsg)
    /\ getCapacityLimits.mFloodCapacity > config.flowControlBytesTotal

\* C12 (as stated): releaseOutboundCapacity is fatal, with the outbound counter
\* unchanged, for every message but the strategy's own grant: SEND_MORE (a
\* message count) on a count-based ledger, SEND_MORE_EXTENDED (a byte count) on
\* a byte-based one.
C12_OnlyOwnGrantKind ==
    ( /\ last.op = "releaseOutboundCapacity"
      /\ last.msg.type # (IF strategy = "message"
                          THEN "SEND_MORE"
                          ELSE "SEND_MORE_EXTENDED") )
    => /\ aborted
       /\ mOutboundCapacity = last.pre.mOutboundCapacity

\* C12 (amended): releaseOutboundCapacity is fatal, with the outbound counter
\* unchanged, for every message that is not a credit grant the strategy
\* accepts; the count-based ledger accepts SEND_MORE and SEND_MORE_EXTENDED,
\* the byte-based ledger accepts SEND_MORE_EXTENDED only, and a grant of an
\* accepted kind is not rejected for its kind.
C12_RejectsUnexpectedKinds ==
    last.op = "releaseOutboundCapacity" =>
        LET accepted ==
                IF strategy = "message"
                THEN last.msg.type \in {"SEND_MORE", "SEND_MORE_EXTENDED"}
                ELSE last.msg.type = "SEND_MORE_EXTENDED"
        IN  /\ ~accepted => /\ aborted
                            /\ mOutboundCapacity = last.pre.mOutboundCapacity
            /\ (accepted /\ ~(strategy = "byte" /\ mRemoteOverlayVersion = 0))
                   => ~aborted

\* C12 witness: a count-based ledger takes the message count of a
\* SEND_MORE_EXTENDED grant.
C12_Witness ==
    /\ strategy = "message"
    /\ Returned("releaseOutboundCapacity") /\ last.msg = SendMoreExt
    /\ mOutboundCapacity = last.pre.mOutboundCapacity + 2

\* C13: on a byte-based ledger the cost of a message is its serialized size
\* minus the size of its type discriminator when the remote and the local
\* version are both >= the accounting threshold, and its full serialized size
\* for every other pair of versions; in every state (whatever the capacities
\* and the outbound counter) it is that function of the message and the two
\* versions, and it is the amount a release of a flood message reports.
C13_ByteCost ==
    (strategy = "byte" /\ mRemoteOverlayVersion # 0) =>
        LET bothNew ==
                /\ mRemoteOverlayVersion
                       >= FIRST_VERSION_UPDATED_FLOW_CONTROL_ACCOUNTING
                /\ config.OVERLAY_PROTOCOL_VERSION
                       >= FIRST_VERSION_UPDATED_FLOW_CONTROL_ACCOUNTING
            expected(m) == IF bothNew THEN m.xdrSize - 4 ELSE m.xdrSize
        IN  /\ \A m \in Messages :
                   /\ getMsgResourceCount(m) = expected(m)
                   /\ (getMsgResourceCount(m) = m.xdrSize - 4) <=> bothNew
            /\ (Returned("releaseLocalCapacity") /\ isFloodMessage(last.msg))
                   => last.retUnits = expected(last.msg)

\* C13 witness: with a new remote peer and an old local version, the release of
\* a 904-byte flood message reports the full 904 bytes.
C13_Witness ==
    /\ strategy = "byte"
    /\ mRemoteOverlayVersion = 30 /\ config.OVERLAY_PROTOCOL_VERSION = 29
    /\ Returned("releaseLocalCapacity") /\ last.msg = TxMsg
    /\ last.retUnits = 904

\* C14: in every reachable state of a count-based ledger total_capacity and
\* its ceiling are both present, and in every reachable state of a byte-based
\* ledger both are absent (so no operation changes the presence of either).
C14_TotalPresenceFixed ==
    IF strategy = "message"
    THEN /\ HasValue(mCapacity.mTotalCapacity)
         /\ HasValue(getCapacityLimits.mTotalCapacity)
    ELSE /\ ~HasValue(mCapacity.mTotalCapacity)
         /\ ~HasValue(getCapacityLimits.mTotalCapacity)

\* C14 witness: a byte ledger has released a non-flood message that was never
\* locked, and its total capacity is still absent.
C14_Witness ==
    /\ strategy = "byte"
    /\ Returned("releaseLocalCapacity") /\ last.msg = GetMsg
    /\ unpaired = 1
    /\ ~HasValue(mCapacity.mTotalCapacity)

\* C15: no step makes flood_capacity, total_capacity or the outbound counter
\* wrap around: a step that adds (releaseLocalCapacity, releaseOutboundCapacity,
\* handleTxSizeIncrease) leaves none of them smaller than before, and a step
\* that subtracts (lockLocalCapacity, lockOutboundCapacity) leaves none of them
\* larger than before.
C15_NoWraparound ==
    [][ LET total(cap) == IF HasValue(cap.mTotalCapacity)
                          THEN Value(cap.mTotalCapacity)
                          ELSE 0
        IN  /\ last'.op \in {"releaseLocalCapacity", "releaseOutboundCapacity",
                             "handleTxSizeIncrease"}
                => /\ mCapacity'.mFloodCapacity >= mCapacity.mFloodCapacity
                   /\ total(mCapacity') >= total(mCapacity)
                   /\ mOutboundCapacity' >= mOutboundCapacity
            /\ last'.op \in {"lockLocalCapacity", "lockOutboundCapacity"}
                => /\ mCapacity'.mFloodCapacity <= mCapacity.mFloodCapacity
                   /\ total(mCapacity') <= total(mCapacity)
                   /\ mOutboundCapacity' <= mOutboundCapacity
      ]_vars

\* C16: in a lockLocalCapacity that returns, a flood message whose cost is
\* deducted from flood_capacity has the same cost deducted from total_capacity
\* (when present), a non-flood message changes total_capacity only, and a
\* flood message whose flood deduction did not happen leaves total_capacity
\* as it was.
C16_FloodAndTotalCoupled ==
    Returned("lockLocalCapacity") =>
        LET before == last.pre.mCapacity
            cost == getMsgResourceCount(last.msg)
            floodDeducted ==
                mCapacity.mFloodCapacity = before.mFloodCapacity - cost
            totalDeducted ==
                HasValue(before.mTotalCapacity) =>
                    Value(mCapacity.mTotalCapacity)
                        = Value(before.mTotalCapacity) - cost
        IN  IF isFloodMessage(last.msg)
            THEN IF floodDeducted
                 THEN totalDeducted
                 ELSE mCapacity = before
            ELSE /\ mCapacity.mFloodCapacity = before.mFloodCapacity
                 /\ totalDeducted

\* C17: while the caller has released only in-flight messages (admitted, not
\* yet released), every reachable state of either strategy has flood_capacity
\* + the costs of the flood messages in flight = the current flood ceiling,
\* handleTxSizeIncrease steps included.
C17_FloodConservation ==
    unpaired = 0 =>
        mCapacity.mFloodCapacity
            + inflight[TxMsg] * getMsgResourceCount(TxMsg)
        = getCapacityLimits.mFloodCapacity

\* C17 witness: a byte ledger whose ceiling was raised by 200 admits a second
\* 904-byte flood message, which leaves 200 bytes of flood capacity.
C17_Witness ==
    /\ strategy = "byte" /\ unpaired = 0
    /\ Returned("lockLocalCapacity") /\ last.msg = TxMsg /\ last.retBool
    /\ inflight[TxMsg] = 2
    /\ getCapacityLimits.mFloodCapacity = config.flowControlBytesTotal + 200
    /\ mCapacity.mFloodCapacity = 200

\* C18: a fresh ledger has its capacity snapshot equal to its limits, and
\* whenever every admitted message has been released (the caller having
\* released in-flight messages only) the snapshot equals the limits again:
\* flood_capacity = flood ceiling and, on a count-based ledger, total_capacity
\* = total ceiling.
C18_ReturnsToFull ==
    (~aborted /\ unpaired = 0 /\ InFlightCount = 0) =>
        mCapacity = getCapacityLimits

\* C19: on a count-based ledger a lockLocalCapacity called in a state where
\* canRead() is true never fails its assertion, for flood and non-flood
\* messages alike, and one called where canRead() is false is fatal.
C19_ReadGating ==
    [][(strategy = "message" /\ LockLocal) => (aborted' <=> ~canReadValue)]_vars

\* C19 witness: with flood capacity left but no total capacity, the lock of a
\* non-flood message ended the process; the two locks before it, made while
\* canRead() was true, were admitted.
C19_Witness ==
    /\ strategy = "message" /\ aborted
    /\ last.op = "lockLocalCapacity" /\ last.msg = GetMsg
    /\ inflight[GetMsg] = 2
    /\ mCapacity.mFloodCapacity > 0
    /\ Value(mCapacity.mTotalCapacity) = 0

====
